---- MODULE Spec2Model ----
(***************************************************************************)
(* Model of the 3D linear-regression visualizer: the RegressionCube        *)
(* component's state (sliders, checkbox, memoised point set, the plane     *)
(* group mutated by the per-frame callback) and the pure functions of      *)
(* RegressionStats.tsx and RegressionCube.tsx.                             *)
(*                                                                         *)
(* Numbers.  A JavaScript number is modelled as a fixed-point integer in   *)
(* units of 1/Scale (Scale = 10^4), every product and quotient rounded to  *)
(* the nearest unit.  Results of divisions and whatever is computed from   *)
(* them are records [k, v]: k = "fin" with the fixed-point value v,        *)
(* k = "inf" with the sign v, or k = "nan".  Angles are kept in degrees;   *)
(* Sin and Cos stand for Math.sin/Math.cos applied to deg * Math.PI / 180  *)
(* and are exact to the model's resolution.  A value whose exact real      *)
(* value is 0 is 0 in the model; an IEEE double may carry a residue below  *)
(* the resolution there (Math.cos(Math.PI / 2) is 6.1e-17).                *)
(***************************************************************************)
EXTENDS Integers, Sequences, FiniteSets, TLC

----------------------------------------------------------------------------
(* Bounds of the exploration *)

\* the sliders are sampled every HeightStep hundredths, DegStep degrees and
\* NoiseStep tenths; NumSeeds random streams are tried per generation
HeightStep == 50
DegStep == 35
NoiseStep == 20
NumSeeds == 2
\* longest point sequence handed to calculateError on its own
MaxPts == 3

----------------------------------------------------------------------------
(* Fixed-point arithmetic *)

\* sin of 0..90 degrees in units of 1/10000
SinTab ==
  << 0, 175, 349, 523, 698, 872, 1045, 1219, 1392, 1564,
     1736, 1908, 2079, 2250, 2419, 2588, 2756, 2924, 3090, 3256,
     3420, 3584, 3746, 3907, 4067, 4226, 4384, 4540, 4695, 4848,
     5000, 5150, 5299, 5446, 5592, 5736, 5878, 6018, 6157, 6293,
     6428, 6561, 6691, 6820, 6947, 7071, 7193, 7314, 7431, 7547,
     7660, 7771, 7880, 7986, 8090, 8192, 8290, 8387, 8480, 8572,
     8660, 8746, 8829, 8910, 8988, 9063, 9135, 9205, 9272, 9336,
     9397, 9455, 9511, 9563, 9613, 9659, 9703, 9744, 9781, 9816,
     9848, 9877, 9903, 9925, 9945, 9962, 9976, 9986, 9994, 9998,
     10000 >>

\* the fixed-point unit: the table's value of sin 90 degrees
Scale == SinTab[91]

Abs(a) == IF a < 0 THEN -a ELSE a

Sgn(a) == IF a < 0 THEN -1 ELSE IF a > 0 THEN 1 ELSE 0

\* a / b rounded to the nearest integer, b # 0
RDiv(a, b) == Sgn(a) * Sgn(b) * ((Abs(a) + (Abs(b) \div 2)) \div Abs(b))

\* product of two fixed-point numbers, rounded to the nearest unit; the
\* operands are split at Scale so that no intermediate exceeds the result
Mul(a, b) ==
  LET ah == Abs(a) \div Scale
      al == Abs(a) % Scale
      bh == Abs(b) \div Scale
      bl == Abs(b) % Scale
  IN  Sgn(a) * Sgn(b)
        * (ah * bh * Scale + ah * bl + al * bh + RDiv(al * bl, Scale))

\* Math.sin of an angle given in degrees
Sin(deg) ==
  LET r == deg % 360
  IN  IF r <= 90 THEN SinTab[r + 1]
      ELSE IF r <= 180 THEN SinTab[180 - r + 1]
      ELSE IF r <= 270 THEN -SinTab[r - 180 + 1]
      ELSE -SinTab[360 - r + 1]

\* Math.cos of an angle given in degrees
Cos(deg) == Sin(deg + 90)

----------------------------------------------------------------------------
(* Numbers that may be non-finite *)

Fin(v) == [k |-> "fin", v |-> v]

Inf(s) == [k |-> "inf", v |-> s]

NaN == [k |-> "nan", v |-> 0]

IsFinite(a) == a.k = "fin"

\* sign of a finite or infinite number
FSgn(a) == IF a.k = "inf" THEN a.v ELSE Sgn(a.v)

\* a / b on finite operands; a zero divisor is taken as +0
FDiv(a, b) ==
  IF b # 0 THEN Fin(RDiv(a * Scale, b))
  ELSE IF a = 0 THEN NaN
  ELSE Inf(Sgn(a))

FAdd(a, b) ==
  IF a.k = "nan" \/ b.k = "nan" THEN NaN
  ELSE IF a.k = "inf" /\ b.k = "inf" THEN (IF a.v = b.v THEN a ELSE NaN)
  ELSE IF a.k = "inf" THEN a
  ELSE IF b.k = "inf" THEN b
  ELSE Fin(a.v + b.v)

FNeg(a) == IF a.k = "nan" THEN NaN ELSE [k |-> a.k, v |-> -a.v]

FSub(a, b) == FAdd(a, FNeg(b))

FMul(a, b) ==
  IF a.k = "nan" \/ b.k = "nan" THEN NaN
  ELSE IF a.k = "fin" /\ b.k = "fin" THEN Fin(Mul(a.v, b.v))
  ELSE IF FSgn(a) = 0 \/ FSgn(b) = 0 THEN NaN
  ELSE Inf(FSgn(a) * FSgn(b))

\* Math.pow(a, 2)
Pow2(a) == FMul(a, a)

----------------------------------------------------------------------------
(* Constants of the program *)

CUBE_SIZE == 5

\* CUBE_SIZE / 2 in fixed point
HALF_SIZE == (CUBE_SIZE * Scale) \div 2

\* generateDataPoints(30, noiseLevel)
COUNT == 30

\* number of degrees of the rotation sliders' range
MaxDeg == 70

\* the noise slider's maximum, in tenths
MaxNoise == 20

\* the initial noise level, in tenths
InitNoise == 8

\* initial height, in hundredths
InitHeight == 50

----------------------------------------------------------------------------
(* RegressionStats.tsx *)

\* height * cubeSize - cubeSize / 2, the height in hundredths
YPosition(height, cubeSize) ==
  ((height * cubeSize * Scale) \div 100) - ((cubeSize * Scale) \div 2)

\* the normal with the cos(zRad) factor of normalY left out
PlaneNormalWithoutCosZ(xRotation, zRotation) ==
  LET effectiveXRad == 90 + xRotation
      normalX == Sin(effectiveXRad)
      normalY == Cos(effectiveXRad)
      normalZ == Mul(Sin(zRotation), Cos(effectiveXRad))
  IN  <<normalX, normalY, normalZ>>

\* the normal vector computed from the two angles
PlaneNormal(xRotation, zRotation) ==
  LET effectiveXRad == 90 + xRotation
      normalX == Sin(effectiveXRad)
      normalY == Mul(Cos(effectiveXRad), Cos(zRotation))
      normalZ == Mul(Sin(zRotation), Cos(effectiveXRad))
  IN  <<normalX, normalY, normalZ>>

\* d of ax + by + cz + d = 0
PlaneD(normal, yPosition) ==
  (-Mul(normal[1], 0)) - Mul(normal[2], yPosition) - Mul(normal[3], 0)

calculatePlaneEquation(height, xRotation, zRotation, cubeSize) ==
  LET n == PlaneNormal(xRotation, zRotation)
      d == PlaneD(n, YPosition(height, cubeSize))
  IN  [beta0 |-> FDiv(-d, n[2]),
       beta1 |-> FDiv(-n[1], n[2]),
       beta2 |-> FDiv(-n[3], n[2]),
       normalVector |-> n]

\* predictedY of calculateError's reducer
PredictedY(equation, point) ==
  FAdd(FAdd(equation.beta0, FMul(equation.beta1, Fin(point.x))),
       FMul(equation.beta2, Fin(point.z)))

\* the reducer without the square
ErrorStepNoSquare(totalError, point, equation) ==
  FAdd(totalError, FSub(Fin(point.y), PredictedY(equation, point)))

\* the reducer of calculateError
ErrorStep(totalError, point, equation) ==
  FAdd(totalError, Pow2(FSub(Fin(point.y), PredictedY(equation, point))))

RECURSIVE Reduce(_, _, _, _)
\* points.reduce(..., acc) from index i on
Reduce(points, equation, i, acc) ==
  IF i > Len(points) THEN acc
  ELSE Reduce(points, equation, i + 1, ErrorStep(acc, points[i], equation))

calculateError(points, equation) == Reduce(points, equation, 1, Fin(0))

----------------------------------------------------------------------------
(* RegressionCube.tsx: the point generator *)

\* the values Math.random() is sampled at, in thousandths
RandVals == <<0, 250, 500, 750, 999>>

\* the k-th Math.random() of a generation run under random stream seed:
\* point i draws the three digits of its index into RandVals^3
Random(seed, k) ==
  LET i == ((k - 1) \div 3) + 1
      t == (seed + 4 * i) % 125
      j == (k - 1) % 3
      digit == IF j = 0 THEN t % 5
               ELSE IF j = 1 THEN (t \div 5) % 5
               ELSE t \div 25
  IN  RandVals[digit + 1]

\* Math.random() - 0.5
Centered(r) == ((r - 500) * Scale) \div 1000

\* the clamp without its Math.min
ClampYLowerOnly(y) ==
  LET lo == Mul(-HALF_SIZE, (9 * Scale) \div 10)
  IN  IF lo > y THEN lo ELSE y

\* Math.max(-HALF_SIZE * 0.9, Math.min(HALF_SIZE * 0.9, y))
ClampY(y) ==
  LET hi == Mul(HALF_SIZE, (9 * Scale) \div 10)
      lo == Mul(-HALF_SIZE, (9 * Scale) \div 10)
      m == IF hi < y THEN hi ELSE y
  IN  IF lo > m THEN lo ELSE m

\* y before the clamp with a perturbation that ignores the noise level
RawYIgnoringNoise(x, z, r, noise) ==
  LET trueBeta0 == 0
      trueBeta1 == (5 * Scale) \div 10
      trueBeta2 == -((3 * Scale) \div 10)
  IN  trueBeta0 + Mul(trueBeta1, x) + Mul(trueBeta2, z)
        + Mul(Mul(Centered(r), CUBE_SIZE * Scale), (4 * Scale) \div 10)

\* y of a generated point before the clamp; noise in tenths
RawY(x, z, r, noise) ==
  LET trueBeta0 == 0
      trueBeta1 == (5 * Scale) \div 10
      trueBeta2 == -((3 * Scale) \div 10)
  IN  trueBeta0 + Mul(trueBeta1, x) + Mul(trueBeta2, z)
        + Mul(Mul(Mul(Centered(r), (noise * Scale) \div 10),
                  CUBE_SIZE * Scale), (4 * Scale) \div 10)

\* x or z of a generated point
RandomCoord(r) ==
  Mul(Mul(Centered(r), CUBE_SIZE * Scale), (8 * Scale) \div 10)

\* the i-th point of a generation run
GenPoint(i, noise, seed) ==
  LET x == RandomCoord(Random(seed, 3 * i - 2))
      z == RandomCoord(Random(seed, 3 * i - 1))
      y == RawY(x, z, Random(seed, 3 * i), noise)
  IN  [x |-> x, y |-> ClampY(y), z |-> z]

generateDataPoints(count, noise, seed) ==
  [i \in 1..count |-> GenPoint(i, noise, seed)]

----------------------------------------------------------------------------
(* RegressionCube.tsx: the residual lines *)

RECURSIVE Float32Step(_)
\* spacing of the numbers with a 24-bit significand around magnitude m
Float32Step(m) == IF m < 2^24 THEN 1 ELSE 2 * Float32Step(m \div 2)

\* new Float32Array([...]) of one entry: the value is rounded to a 24-bit
\* significand, ties to even; non-finite values are kept
Float32(a) ==
  IF a.k # "fin" THEN a
  ELSE LET m == Abs(a.v)
           s == Float32Step(m)
           q == m \div s
           r == m % s
           up == (2 * r > s) \/ (2 * r = s /\ q % 2 = 1)
       IN  Fin(Sgn(a.v) * s * (IF up THEN q + 1 ELSE q))

\* predictedY of ErrorLines with d left out of the numerator
LinePredictedYWithoutD(point, n, d) ==
  FDiv((-Mul(n[1], point.x)) - Mul(n[3], point.z), n[2])

\* predictedY of ErrorLines for one point, from the normal and d that the
\* component computed before the loop
LinePredictedY(point, n, d) ==
  FDiv((-Mul(n[1], point.x)) - Mul(n[3], point.z) - d, n[2])

\* the vertices of the line of every point
ErrorLines(pts, h, xRot, zRot) ==
  LET n == PlaneNormal(xRot, zRot)
      yPosition == ((h * CUBE_SIZE * Scale) \div 100) - HALF_SIZE
      d == PlaneD(n, yPosition)
  IN  [i \in 1..Len(pts) |->
         << Float32(Fin(pts[i].x)), Float32(Fin(pts[i].y)),
            Float32(Fin(pts[i].z)), Float32(Fin(pts[i].x)),
            Float32(LinePredictedY(pts[i], n, d)),
            Float32(Fin(pts[i].z)) >>]

----------------------------------------------------------------------------
(* RegressionCube.tsx: the rendered plane *)

\* rotation of a vector about the x-axis
RotX(v, deg) ==
  << v[1],
     Mul(v[2], Cos(deg)) - Mul(v[3], Sin(deg)),
     Mul(v[2], Sin(deg)) + Mul(v[3], Cos(deg)) >>

\* rotation of a vector about the y-axis
RotY(v, deg) ==
  << Mul(v[1], Cos(deg)) + Mul(v[3], Sin(deg)),
     v[2],
     Mul(v[3], Cos(deg)) - Mul(v[1], Sin(deg)) >>

\* rotation of a vector about the z-axis
RotZ(v, deg) ==
  << Mul(v[1], Cos(deg)) - Mul(v[2], Sin(deg)),
     Mul(v[1], Sin(deg)) + Mul(v[2], Cos(deg)),
     v[3] >>

\* normal of <mesh rotation={[Math.PI / 2, 0, 0]}> over a planeGeometry,
\* whose own normal is +z
MeshNormal == RotX(<<0, 0, Scale>>, 90)

\* normal of the mesh inside the group: an Euler rotation (x, y, z) of order
\* XYZ is the matrix Rx * Ry * Rz
GroupNormal(rot) == RotX(RotY(RotZ(MeshNormal, rot[3]), rot[2]), rot[1])

\* elevation at (x, z) of the plane drawn for a group rotation and y-position
RenderedElevation(rot, posY, x, z) ==
  LET n == GroupNormal(rot)
  IN  FAdd(Fin(posY), FDiv(-(Mul(n[1], x) + Mul(n[3], z)), n[2]))

----------------------------------------------------------------------------
(* State *)

VARIABLES
  height,        \* useState(0.5), in hundredths
  xRotation,     \* useState(0), degrees
  zRotation,     \* useState(0), degrees
  showErrors,    \* useState(true)
  noiseLevel,    \* useState(0.8), in tenths
  points,        \* useMemo(() => generateDataPoints(30, noiseLevel))
  planeRot,      \* planeRef.current.rotation, degrees
  planePosY,     \* planeRef.current.position.y
  callArgs,      \* arguments of a direct call of one of the pure functions
  callResult     \* << >> before the call returns, then << its result >>

vars == << height, xRotation, zRotation, showErrors, noiseLevel, points,
           planeRot, planePosY, callArgs, callResult >>

uiVars == << height, xRotation, zRotation, showErrors, noiseLevel, points,
             planeRot, planePosY >>

callVars == << callArgs, callResult >>

\* values the sliders are moved to
Heights == {h \in 0..100 : h % HeightStep = 0}

Degrees == {d \in (-MaxDeg)..MaxDeg : d % DegStep = 0}

Noises == {n \in 0..MaxNoise : n % NoiseStep = 0}

Seeds == 0..(NumSeeds - 1)

\* generateDataPoints(30, n) under every random stream, n in tenths
GeneratedPoints ==
  [n \in 0..MaxNoise |->
     [seed \in Seeds |-> generateDataPoints(COUNT, n, seed)]]

\* what RegressionStats computes in a render
equation == calculatePlaneEquation(height, xRotation, zRotation, CUBE_SIZE)

error == calculateError(points, equation)

\* what the canvas holds of {showErrors && <ErrorLines .../>}
lines ==
  IF showErrors THEN ErrorLines(points, height, xRotation, zRotation)
  ELSE << >>

UiInit ==
  /\ height = InitHeight
  /\ xRotation = 0
  /\ zRotation = 0
  /\ showErrors = TRUE
  /\ noiseLevel = InitNoise
  /\ \E seed \in Seeds : points = GeneratedPoints[InitNoise][seed]
  /\ planeRot = <<0, 0, 0>>
  /\ planePosY = 0

Init ==
  /\ UiInit
  /\ callArgs = << >>
  /\ callResult = << >>

----------------------------------------------------------------------------
(* Operations *)

\* useMemo without its dependency list: recomputed in every render
MemoPointsNoDeps(n, seed) == GeneratedPoints[n][seed]

\* useMemo(() => generateDataPoints(30, noiseLevel), [noiseLevel]) in the
\* render that follows a state change: n is the noise level of that render
MemoPoints(n, seed) ==
  IF n = noiseLevel THEN points ELSE GeneratedPoints[n][seed]

\* the render of RegressionCube after a state change
Render(n) == \E seed \in Seeds : points' = MemoPoints(n, seed)

\* onChange of the height slider
setHeight(h) ==
  /\ height' = h
  /\ Render(noiseLevel)
  /\ UNCHANGED << xRotation, zRotation, showErrors, noiseLevel,
                  planeRot, planePosY, callVars >>

\* onChange of the X1-axis rotation slider
setXRotation(d) ==
  /\ xRotation' = d
  /\ Render(noiseLevel)
  /\ UNCHANGED << height, zRotation, showErrors, noiseLevel,
                  planeRot, planePosY, callVars >>

\* onChange of the X2-axis rotation slider
setZRotation(d) ==
  /\ zRotation' = d
  /\ Render(noiseLevel)
  /\ UNCHANGED << height, xRotation, showErrors, noiseLevel,
                  planeRot, planePosY, callVars >>

\* onChange of the checkbox
setShowErrors(b) ==
  /\ showErrors' = b
  /\ Render(noiseLevel)
  /\ UNCHANGED << height, xRotation, zRotation, noiseLevel,
                  planeRot, planePosY, callVars >>

\* onChange of the noise slider
regenerateData(n) ==
  /\ noiseLevel' = n
  /\ Render(n)
  /\ UNCHANGED << height, xRotation, zRotation, showErrors,
                  planeRot, planePosY, callVars >>

\* the useFrame callback of RegressionPlane
Frame ==
  /\ planeRot' = <<xRotation, 0, zRotation>>
  /\ planePosY' = ((height * CUBE_SIZE * Scale) \div 100) - HALF_SIZE
  /\ UNCHANGED << height, xRotation, zRotation, showErrors, noiseLevel,
                  points, callVars >>

Next ==
  \/ \E h \in Heights : setHeight(h)
  \/ \E d \in Degrees : setXRotation(d)
  \/ \E d \in Degrees : setZRotation(d)
  \/ \E b \in BOOLEAN : setShowErrors(b)
  \/ \E n \in Noises : regenerateData(n)
  \/ Frame

Spec == Init /\ [][Next]_vars

----------------------------------------------------------------------------
(* Direct calls of the pure functions *)

\* coordinates and coefficients of the calls of calculateError: whole units
TestPoints ==
  [x : {-Scale, Scale}, y : {-Scale, 2 * Scale}, z : {0, Scale}]

TestEquations ==
  [beta0 : {Fin(0), Fin(Scale)}, beta1 : {Fin(-Scale), Fin(Scale)},
   beta2 : {Fin(0), Fin(Scale)}]

TestSequences == UNION {[1..n -> TestPoints] : n \in 0..MaxPts}

ErrorInit ==
  /\ UiInit
  /\ points = GeneratedPoints[InitNoise][0]
  /\ callArgs \in [points : TestSequences, equation : TestEquations]
  /\ callResult = << >>

CallCalculateError ==
  /\ callResult = << >>
  /\ callResult' = << calculateError(callArgs.points, callArgs.equation) >>
  /\ UNCHANGED << uiVars, callArgs >>

SpecError == ErrorInit /\ [][CallCalculateError]_vars

PlaneInit ==
  /\ UiInit
  /\ points = GeneratedPoints[InitNoise][0]
  /\ callArgs \in [height : Heights, xRotation : (-MaxDeg)..MaxDeg,
                   zRotation : (-MaxDeg)..MaxDeg, cubeSize : {CUBE_SIZE}]
  /\ callResult = << >>

CallCalculatePlaneEquation ==
  /\ callResult = << >>
  /\ callResult' = << calculatePlaneEquation(callArgs.height,
                        callArgs.xRotation, callArgs.zRotation,
                        callArgs.cubeSize) >>
  /\ UNCHANGED << uiVars, callArgs >>

SpecPlane == PlaneInit /\ [][CallCalculatePlaneEquation]_vars

----------------------------------------------------------------------------
(* Properties *)

\* |a - b| <= tol for two numbers, both finite
Close(a, b, tol) ==
  /\ IsFinite(a)
  /\ IsFinite(b)
  /\ Abs(a.v - b.v) <= tol

\* the (x, z) the planes are compared at
SampleCoords == {-Scale, 0, Scale}

\* the per-frame callback has applied the current sliders to the group
FrameApplied ==
  /\ planeRot = <<xRotation, 0, zRotation>>
  /\ planePosY = YPosition(height, CUBE_SIZE)

\* a hundredth of a unit of length, far above the rounding of the arithmetic
Hundredth == Scale \div 100

\* C1: whenever the normal's y-component is nonzero, the plane
\* y = beta0 + beta1*x + beta2*z of calculatePlaneEquation is the plane that
\* RegressionPlane draws for the same height and rotations: at every (x, z)
\* the drawn plane's elevation is beta0 + beta1*x + beta2*z.
C1_EquationIsRenderedPlane ==
  (FrameApplied /\ equation.normalVector[2] # 0) =>
    \A x \in SampleCoords : \A z \in SampleCoords :
      Close(RenderedElevation(planeRot, planePosY, x, z),
            PredictedY(equation, [x |-> x, y |-> 0, z |-> z]), Hundredth)

\* C2: with xRotation = 0 and zRotation = 0, for every height,
\* calculatePlaneEquation returns the horizontal plane beta1 = 0, beta2 = 0,
\* beta0 = height*cubeSize - cubeSize/2.
C2_HorizontalAtZeroRotation ==
  (xRotation = 0 /\ zRotation = 0) =>
    /\ equation.beta1 = Fin(0)
    /\ equation.beta2 = Fin(0)
    /\ equation.beta0 = Fin(YPosition(height, CUBE_SIZE))

SqLength(seg) ==
  FAdd(FAdd(Pow2(FSub(seg[4], seg[1])), Pow2(FSub(seg[5], seg[2]))),
       Pow2(FSub(seg[6], seg[3])))

RECURSIVE SumSqLengths(_, _)
\* sum of the squared lengths of the first n segments
SumSqLengths(segs, n) ==
  IF n = 0 THEN Fin(0)
  ELSE FAdd(SumSqLengths(segs, n - 1), SqLength(segs[n]))

\* rounding allowed between two evaluations of the same predicted y: the
\* numerator's rounding is amplified by the division by the normal's y
PredTol(eq) == 5 + (Scale \div Abs(eq.normalVector[2]))

RECURSIVE SumTol(_, _, _)
\* rounding allowed between two sums of n squared residuals that differ by
\* tol each
SumTol(segs, n, tol) ==
  IF n = 0 THEN 0
  ELSE SumTol(segs, n - 1, tol) + 2
         + ((tol * (2 * Abs(segs[n][5].v - segs[n][2].v) + tol)) \div Scale)

\* C8: for every point and every parameter triple with nonzero normal
\* y-component, the segment drawn by ErrorLines runs from the observed point
\* (x, y, z) to (x, predictedY, z) with predictedY the value
\* beta0 + beta1*x + beta2*z of calculatePlaneEquation's coefficients, so the
\* total error of RegressionStats is the sum of the squared lengths of the
\* drawn segments (both up to the rounding of the arithmetic).
C8_LinesMatchEquation ==
  LET eq == equation
      segs == lines
      tol == PredTol(eq)
  IN  (showErrors /\ eq.normalVector[2] # 0) =>
        /\ Len(segs) = Len(points)
        /\ \A i \in 1..Len(points) :
             /\ segs[i][1] = Fin(points[i].x)
             /\ segs[i][2] = Fin(points[i].y)
             /\ segs[i][3] = Fin(points[i].z)
             /\ segs[i][4] = Fin(points[i].x)
             /\ segs[i][6] = Fin(points[i].z)
             /\ Close(segs[i][5], PredictedY(eq, points[i]), tol)
        /\ Close(calculateError(points, eq), SumSqLengths(segs, Len(segs)),
                 SumTol(segs, Len(segs), tol))

\* C8 witness: lines are drawn for a tilted plane at maximal noise, away
\* from the data, so that the total error is positive
C8_Witness ==
  /\ showErrors
  /\ xRotation # 0
  /\ zRotation # 0
  /\ height # InitHeight
  /\ noiseLevel = MaxNoise
  /\ Len(lines) = COUNT
  /\ IsFinite(error)
  /\ error.v > Scale

\* a value in whole units
Units(v) == v \div Scale

\* residual of a point against an equation, both in whole units
UnitResidual(p, eq) ==
  Units(p.y) - (Units(eq.beta0.v) + Units(eq.beta1.v) * Units(p.x)
                  + Units(eq.beta2.v) * Units(p.z))

RECURSIVE SumSquares(_, _, _)
\* sum over the indices in S of the squared residuals, in whole units
SumSquares(S, pts, eq) ==
  IF S = {} THEN 0
  ELSE LET i == CHOOSE j \in S : TRUE
       IN  (UnitResidual(pts[i], eq) * UnitResidual(pts[i], eq))
             + SumSquares(S \ {i}, pts, eq)

\* C5: calculateError returns the sum over the points of
\* (y - (beta0 + beta1*x + beta2*z))^2; so it returns 0 for the empty
\* sequence, the points lying on the plane contribute nothing, and the
\* result is never negative.
C5_ErrorIsSumOfSquares ==
  callResult # << >> =>
    LET pts == callArgs.points
        eq == callArgs.equation
        offPlane == {i \in 1..Len(pts) : UnitResidual(pts[i], eq) # 0}
    IN  /\ callResult[1] = Fin(Scale * SumSquares(1..Len(pts), pts, eq))
        /\ callResult[1] = Fin(Scale * SumSquares(offPlane, pts, eq))
        /\ callResult[1].v >= 0
        /\ (pts = << >> => callResult[1] = Fin(0))

\* C5 witness: a call has returned a positive error for a sequence holding
\* a point on the plane, a point above it and a point below it
C5_Witness ==
  /\ callResult # << >>
  /\ callResult[1].k = "fin"
  /\ callResult[1].v > 0
  /\ \E i, j, l \in 1..Len(callArgs.points) :
       /\ UnitResidual(callArgs.points[i], callArgs.equation) = 0
       /\ UnitResidual(callArgs.points[j], callArgs.equation) > 0
       /\ UnitResidual(callArgs.points[l], callArgs.equation) < 0

\* 0.45 * CUBE_SIZE
YBound == (45 * CUBE_SIZE * Scale) \div 100

\* 0.4 * CUBE_SIZE
XZBound == (4 * CUBE_SIZE * Scale) \div 10

\* C6: in every reachable state the point set has exactly 30 points and
\* every point has |y| <= 0.45*CUBE_SIZE, |x| <= 0.4*CUBE_SIZE and
\* |z| <= 0.4*CUBE_SIZE.
C6_PointsCountedAndBounded ==
  /\ Len(points) = 30
  /\ \A i \in 1..Len(points) :
       /\ Abs(points[i].y) <= YBound
       /\ Abs(points[i].x) <= XZBound
       /\ Abs(points[i].z) <= XZBound

\* C6 witness: at the maximum noise level a point whose y exceeded the
\* upper bound before the clamp sits on it, and another sits on the lower
C6_Witness ==
  /\ noiseLevel = MaxNoise
  /\ \E seed \in Seeds : \E i, j \in 1..COUNT :
       /\ points = GeneratedPoints[MaxNoise][seed]
       /\ RawY(points[i].x, points[i].z, Random(seed, 3 * i), MaxNoise)
            > YBound
       /\ points[i].y = YBound
       /\ RawY(points[j].x, points[j].z, Random(seed, 3 * j), MaxNoise)
            < -YBound
       /\ points[j].y = -YBound

\* C7: with noise 0 every generated point satisfies y = 0.5*x - 0.3*z: the
\* clamp leaves the ground-truth value unchanged.
C7_NoiselessPointsOnTruePlane ==
  noiseLevel = 0 =>
    \A i \in 1..Len(points) :
      10 * points[i].y = (5 * points[i].x) - (3 * points[i].z)

\* C7 witness: a noiseless set holding the point of largest |y| the
\* generator can draw: x at one end of its range, z near the other
C7_Witness ==
  /\ noiseLevel = 0
  /\ \E i \in 1..Len(points) :
       /\ points[i].x = -XZBound
       /\ points[i].z > XZBound - Hundredth
       /\ points[i].y < -((3 * Scale) \div 2)

\* allowed deviation of the squared length from 1: a thousandth
UnitTol == (Scale * Scale) \div 1000

\* C9: for every xRotation and zRotation in (-70, 70) degrees the
\* normalVector returned by calculatePlaneEquation has unit length.
C9_NormalIsUnit ==
  (/\ callResult # << >>
   /\ Abs(callArgs.xRotation) < MaxDeg
   /\ Abs(callArgs.zRotation) < MaxDeg) =>
    LET n == callResult[1].normalVector
    IN  Abs((n[1] * n[1]) + (n[2] * n[2]) + (n[3] * n[3]) - (Scale * Scale))
          <= UnitTol

\* C9 witness: a call with both rotations inside the range has returned a
\* normal with three nonzero components
C9_Witness ==
  /\ callResult # << >>
  /\ callArgs.xRotation = 45
  /\ callArgs.zRotation = -30
  /\ \A c \in 1..3 : callResult[1].normalVector[c] # 0

\* C10: the point set is regenerated exactly when the noise level takes a
\* new value: a change of height, xRotation, zRotation or the checkbox and a
\* per-frame callback leave it unchanged, and a noise-level change replaces
\* the whole set by a freshly generated one.
C10_RegeneratedOnNoiseChangeOnly ==
  [][/\ (noiseLevel' = noiseLevel => points' = points)
     /\ (noiseLevel' # noiseLevel =>
           \E seed \in Seeds : points' = GeneratedPoints[noiseLevel'][seed])
    ]_vars

\* C10 witness: after a noise change, every other control has been moved
\* and a frame has run, and the set is still one generated for the current
\* noise level
C10_Witness ==
  /\ noiseLevel # InitNoise
  /\ height # InitHeight
  /\ xRotation # 0
  /\ zRotation # 0
  /\ ~showErrors
  /\ planeRot = <<xRotation, 0, zRotation>>
  /\ \E seed \in Seeds : points = GeneratedPoints[noiseLevel][seed]

====
